---------------------------- MODULE Spec2Model ----------------------------
(***************************************************************************)
(* Model of the Roland VR-6HD remote-control protocol codec (roland-core)  *)
(* and of the hex address type it is built on.                             *)
(*                                                                         *)
(* A Rust &str is modelled as a sequence of Unicode code points; its byte  *)
(* length and its char boundaries are those of its UTF-8 encoding, so that *)
(* byte-indexed slicing (&s[a..b]) panics exactly where Rust panics.       *)
(***************************************************************************)
EXTENDS Integers, Sequences, FiniteSets, TLC

VARIABLES
    input,      \* the &str argument handed to from_hex / parse
    cmd,        \* the Command handed to encode / write
    result,     \* what from_hex / parse returned (NotCalled before the call)
    out,        \* texts produced so far, by the name of the producing method
    client      \* the TelnetClient: its receive buffer and the progress of send_command

vars == <<input, cmd, result, out, client>>

(***************************************************************************)
(* Bounds of the model                                                     *)
(***************************************************************************)
\* longest address text, in chars
MaxHexChars == 6
\* most comma-separated fields in the body of a received message
MaxFields == 3
\* most STX bytes in front of a received message
MaxStx == 2
\* longest code text of an error response, in chars
MaxCodeChars == 4
\* most reads that deliver data within one send_command
MaxReads == 3
\* most send_command calls on one client
MaxCalls == 2

(***************************************************************************)
(* Rust str primitives                                                     *)
(***************************************************************************)
\* char::len_utf8
Utf8Len(c) == IF c < 128 THEN 1 ELSE IF c < 2048 THEN 2 ELSE IF c < 65536 THEN 3 ELSE 4

RECURSIVE StrLen(_)
\* str::len : the length in BYTES
StrLen(s) == IF s = <<>> THEN 0 ELSE Utf8Len(Head(s)) + StrLen(Tail(s))

\* byte offset of the end of the k-th char
ByteOffset(s, k) == StrLen(SubSeq(s, 1, k))

\* str::is_char_boundary
IsCharBoundary(s, i) == \E k \in 0..Len(s) : ByteOffset(s, k) = i

\* &s[a..b] for a, b on char boundaries (the caller checks: Rust panics otherwise)
Slice(s, a, b) ==
    LET ka == CHOOSE k \in 0..Len(s) : ByteOffset(s, k) = a
        kb == CHOOSE k \in 0..Len(s) : ByteOffset(s, k) = b
    IN  SubSeq(s, ka + 1, kb)

\* no TelnetClient is connected
NoClient == [pc |-> "none"]

\* no Command is under encoding
NoCommand == [type |-> "none"]

\* whether the method called `name` has produced its text
Called(name) == name \in DOMAIN out

\* Result values: Ok(v), Err(e), and the panic that unwinds out of the call
Ok(v) == [kind |-> "Ok", val |-> v, err |-> "none"]
Err(e) == [kind |-> "Err", val |-> <<>>, err |-> e]
Panicked == [kind |-> "Panic", val |-> <<>>, err |-> "none"]
NotCalled == [kind |-> "NotCalled", val |-> <<>>, err |-> "none"]

(***************************************************************************)
(* Address                                                                 *)
(***************************************************************************)
Address(high, mid, low) == [high |-> high, mid |-> mid, low |-> low]

\* the match of parse_hex_byte: '0'..='9', 'A'..='F', 'a'..='f', or -1 for `_`
HexDigitOf(ch) ==
    IF ch >= 48 /\ ch <= 57 THEN ch - 48
    ELSE IF ch >= 65 /\ ch <= 70 THEN ch - 65 + 10
    ELSE IF ch >= 97 /\ ch <= 102 THEN ch - 97 + 10
    ELSE -1

RECURSIVE ParseHexLoop(_, _)
\* the for loop of parse_hex_byte over s.chars(), result being the accumulator
ParseHexLoop(s, acc) ==
    IF s = <<>> THEN Ok(acc)
    ELSE IF HexDigitOf(Head(s)) < 0 THEN Err("InvalidAddress")
    ELSE ParseHexLoop(Tail(s), (acc * 16 + HexDigitOf(Head(s))) % 256)

parse_hex_byte(s) ==
    IF StrLen(s) # 2 THEN Err("InvalidAddress") ELSE ParseHexLoop(s, 0)

from_hex(hex) ==
    IF StrLen(hex) # 6 THEN Err("InvalidAddress")
    ELSE IF ~IsCharBoundary(hex, 2) THEN Panicked
    ELSE LET high == parse_hex_byte(Slice(hex, 0, 2)) IN
    IF high.kind # "Ok" THEN Err(high.err)
    ELSE IF ~IsCharBoundary(hex, 4) THEN Panicked
    ELSE LET mid == parse_hex_byte(Slice(hex, 2, 4)) IN
    IF mid.kind # "Ok" THEN Err(mid.err)
    ELSE LET low == parse_hex_byte(Slice(hex, 4, 6)) IN
    IF low.kind # "Ok" THEN Err(low.err)
    ELSE Ok(Address(high.val, mid.val, low.val))

\* NibbleChar with the letters taken from b'a': lowercase output
NibbleCharLower(n) == IF n < 10 THEN 48 + n ELSE 97 + n - 10

\* one uppercase hex digit, as write_hex_byte picks it
NibbleChar(n) == IF n < 10 THEN 48 + n ELSE 65 + n - 10

write_hex_byte(byte) == <<NibbleChar((byte \div 16) % 16), NibbleChar(byte % 16)>>

RECURSIVE UpperHexDigits(_)
\* the digits of {:X}: minimal length, uppercase
UpperHexDigits(n) ==
    IF n < 16 THEN <<NibbleChar(n)>>
    ELSE Append(UpperHexDigits(n \div 16), NibbleChar(n % 16))

RECURSIVE ZeroPad(_, _)
\* the 0<width> flag of format!: pads on the left, never truncates
ZeroPad(digits, width) ==
    IF Len(digits) >= width THEN digits ELSE ZeroPad(<<48>> \o digits, width)

\* FormatHex02 without the zero-padding: format!("{:X}", byte)
FormatHexNoPad(byte) == UpperHexDigits(byte)

\* format!("{:02X}", byte)
FormatHex02(byte) == ZeroPad(UpperHexDigits(byte), 2)

to_hex(a) == FormatHex02(a.high) \o FormatHex02(a.mid) \o FormatHex02(a.low)

write_hex(a) == write_hex_byte(a.high) \o write_hex_byte(a.mid) \o write_hex_byte(a.low)

(***************************************************************************)
(* Specification of the address type: a caller hands from_hex a text and   *)
(* renders the address it gets back.                                       *)
(***************************************************************************)
\* '0' '9' 'a' 'F' (hex digits), 'g' (ASCII, no hex digit), U+00E9 (2 bytes),
\* U+FFFD (3 bytes, what lossy UTF-8 decoding produces)
AddrAlphabet == {48, 57, 97, 70, 103, 233, 65533}

StringsUpTo(alphabet, n) == UNION {[1..k -> alphabet] : k \in 0..n}

\* every hex digit, and the ASCII neighbours of the three digit ranges:
\* '/' ':' '@' 'G' '`' 'g'
PairChars == (48..57) \cup (65..70) \cup (97..102) \cup {47, 58, 64, 71, 96, 103}

\* 6-char texts with every pair of PairChars in each of the three byte positions
PairTexts ==
    UNION { { <<a, b, 48, 48, 48, 48>>, <<48, 48, a, b, 48, 48>>, <<48, 48, 48, 48, a, b>> } :
            a \in PairChars, b \in PairChars }

AddrInit ==
    /\ input \in StringsUpTo(AddrAlphabet, MaxHexChars) \cup PairTexts
    /\ cmd = NoCommand
    /\ result = NotCalled
    /\ out = <<>>
    /\ client = NoClient

FromHexCall ==
    /\ result.kind = "NotCalled"
    /\ result' = from_hex(input)
    /\ UNCHANGED <<input, cmd, out, client>>

ToHexCall ==
    /\ result.kind = "Ok"
    /\ "to_hex" \notin DOMAIN out
    /\ out' = ("to_hex" :> to_hex(result.val)) @@ out
    /\ UNCHANGED <<input, cmd, result, client>>

WriteHexCall ==
    /\ result.kind = "Ok"
    /\ "write_hex" \notin DOMAIN out
    /\ out' = ("write_hex" :> write_hex(result.val)) @@ out
    /\ UNCHANGED <<input, cmd, result, client>>

AddrNext == FromHexCall \/ ToHexCall \/ WriteHexCall

SpecAddr == AddrInit /\ [][AddrNext]_vars


(***************************************************************************)
(* Command                                                                 *)
(***************************************************************************)
\* a u32 is kept as its two 16-bit halves: value = hi * 65536 + lo
U32(hi, lo) == [hi |-> hi, lo |-> lo]

WriteParameter(address, value) == [type |-> "WriteParameter", address |-> address, value |-> value]
ReadParameter(address, size) == [type |-> "ReadParameter", address |-> address, size |-> size]
GetVersion == [type |-> "GetVersion"]

\* "DTH:", "RQH:", "VER;", ",", ";", "\x02"
DTH == <<68, 84, 72, 58>>
RQH == <<82, 81, 72, 58>>
VERreq == <<86, 69, 82, 59>>
COMMA == <<44>>
SEMI == <<59>>
STX == <<2>>

\* format!("{:06X}", size) for a u32 size: all of its digits, padded to 6
FormatHex06(size) ==
    ZeroPad(IF size.hi = 0 THEN UpperHexDigits(size.lo)
            ELSE UpperHexDigits(size.hi) \o ZeroPad(UpperHexDigits(size.lo), 4), 6)

encode(c) ==
    IF c.type = "WriteParameter"
        THEN DTH \o to_hex(c.address) \o COMMA \o FormatHex02(c.value) \o SEMI
    ELSE IF c.type = "ReadParameter"
        THEN RQH \o to_hex(c.address) \o COMMA \o FormatHex06(c.size) \o SEMI
    ELSE VERreq

encode_with_stx(c) == STX \o encode(c)

\* (value >> 16) & 0xFF, (value >> 8) & 0xFF, value & 0xFF
write_hex_u24(value) ==
    write_hex_byte(value.hi % 256) \o write_hex_byte(value.lo \div 256)
        \o write_hex_byte(value.lo % 256)

write(c) ==
    IF c.type = "WriteParameter"
        THEN DTH \o write_hex(c.address) \o COMMA \o write_hex_byte(c.value) \o SEMI
    ELSE IF c.type = "ReadParameter"
        THEN RQH \o write_hex(c.address) \o COMMA \o write_hex_u24(c.size) \o SEMI
    ELSE VERreq

write_with_stx(c) == STX \o write(c)

(***************************************************************************)
(* Specification of command encoding: a caller builds a Command and        *)
(* serializes it through any of the four entry points.                     *)
(***************************************************************************)
\* u8: every value
Bytes == 0..255

\* address bytes the commands are built from: 0x00, 0x09, 0x9A, 0xFF
AddrBytes == {0, 9, 154, 255}

\* halves of the sizes: sizes below and above 2^24, up to 0xFFFFFFFF
SizeHalves == {0, 1, 255, 256, 39612, 65535}

Addresses == {Address(h, m, l) : h \in AddrBytes, m \in AddrBytes, l \in AddrBytes}

Commands ==
    {WriteParameter(a, v) : a \in Addresses, v \in Bytes}
        \cup {ReadParameter(a, U32(hi, lo)) : a \in Addresses, hi \in SizeHalves, lo \in SizeHalves}
        \cup {GetVersion}

EncInit ==
    /\ input = <<>>
    /\ cmd \in Commands
    /\ result = NotCalled
    /\ out = <<>>
    /\ client = NoClient

EncodeCall ==
    /\ cmd.type # "none"
    /\ ~Called("encode")
    /\ out' = ("encode" :> encode(cmd)) @@ out
    /\ UNCHANGED <<input, cmd, result, client>>

EncodeWithStxCall ==
    /\ cmd.type # "none"
    /\ ~Called("encode_with_stx")
    /\ out' = ("encode_with_stx" :> encode_with_stx(cmd)) @@ out
    /\ UNCHANGED <<input, cmd, result, client>>

WriteCall ==
    /\ cmd.type # "none"
    /\ ~Called("write")
    /\ out' = ("write" :> write(cmd)) @@ out
    /\ UNCHANGED <<input, cmd, result, client>>

WriteWithStxCall ==
    /\ cmd.type # "none"
    /\ ~Called("write_with_stx")
    /\ out' = ("write_with_stx" :> write_with_stx(cmd)) @@ out
    /\ UNCHANGED <<input, cmd, result, client>>

EncNext == EncodeCall \/ EncodeWithStxCall \/ WriteCall \/ WriteWithStxCall

SpecEnc == EncInit /\ [][EncNext]_vars

(***************************************************************************)
(* Response                                                                *)
(***************************************************************************)
Acknowledge == [tag |-> "Acknowledge"]
Data(address, value) == [tag |-> "Data", address |-> address, value |-> value]
Version(product, version) == [tag |-> "Version", product |-> product, version |-> version]
Error(e) == [tag |-> "Error", error |-> e]

\* RolandError as carried by Response::Error: the named kinds and UnknownError(code)
NamedError(name) == [name |-> name, code |-> 0]
UnknownError(code) == [name |-> "UnknownError", code |-> code]

\* char::is_whitespace (the Unicode White_Space property)
IsWhitespace(c) ==
    \/ c \in 9..13 \/ c = 32 \/ c = 133 \/ c = 160 \/ c = 5760
    \/ c \in 8192..8202 \/ c = 8232 \/ c = 8233 \/ c = 8239 \/ c = 8287 \/ c = 12288

RECURSIVE TrimStart(_)
TrimStart(s) == IF s # <<>> /\ IsWhitespace(Head(s)) THEN TrimStart(Tail(s)) ELSE s

RECURSIVE TrimEnd(_)
TrimEnd(s) ==
    IF s # <<>> /\ IsWhitespace(s[Len(s)]) THEN TrimEnd(SubSeq(s, 1, Len(s) - 1)) ELSE s

\* str::trim
Trim(s) == TrimEnd(TrimStart(s))

\* str::starts_with / str::ends_with
StartsWith(s, p) == Len(s) >= Len(p) /\ SubSeq(s, 1, Len(p)) = p
EndsWith(s, p) == Len(s) >= Len(p) /\ SubSeq(s, Len(s) - Len(p) + 1, Len(s)) = p

\* &s[n..] for a prefix of n one-byte chars that starts_with has matched
SkipPrefix(s, n) == SubSeq(s, n + 1, Len(s))

\* &content[..content.len() - 1] once ends_with(';') has matched
DropLast(s) == SubSeq(s, 1, Len(s) - 1)

RECURSIVE SplitFrom(_, _, _)
\* the fields of s cut at each sep; cur is the field being read
SplitFrom(s, sep, cur) ==
    IF s = <<>> THEN <<cur>>
    ELSE IF Head(s) = sep THEN <<cur>> \o SplitFrom(Tail(s), sep, <<>>)
    ELSE SplitFrom(Tail(s), sep, Append(cur, Head(s)))

\* content.split(',').collect()
Split(s, sep) == SplitFrom(s, sep, <<>>)

RECURSIVE ParseDecimalLoopWrapping(_, _)
\* ParseDecimalLoop with wrapping u8 arithmetic in place of checked_mul/checked_add
ParseDecimalLoopWrapping(s, acc) ==
    IF s = <<>> THEN Ok(acc)
    ELSE IF ~(Head(s) >= 48 /\ Head(s) <= 57) THEN Err("InvalidResponse")
    ELSE ParseDecimalLoopWrapping(Tail(s), (acc * 10 + (Head(s) - 48)) % 256)

RECURSIVE ParseDecimalLoop(_, _)
\* the for loop of parse_decimal_u8: checked_mul(10) and checked_add(digit) on a u8
ParseDecimalLoop(s, acc) ==
    IF s = <<>> THEN Ok(acc)
    ELSE IF ~(Head(s) >= 48 /\ Head(s) <= 57) THEN Err("InvalidResponse")
    ELSE IF acc * 10 > 255 \/ acc * 10 + (Head(s) - 48) > 255 THEN Err("InvalidResponse")
    ELSE ParseDecimalLoop(Tail(s), acc * 10 + (Head(s) - 48))

parse_decimal_u8(s) == ParseDecimalLoop(s, 0)

\* "VER:", "ERR:", "\x06", "ack", "\x11", "xon", "\x13", "xoff"
VER == <<86, 69, 82, 58>>
ERR == <<69, 82, 82, 58>>
ACK == <<6>>
AckText == <<97, 99, 107>>
XON == <<17>>
XonText == <<120, 111, 110>>
XOFF == <<19>>
XoffText == <<120, 111, 102, 102>>

\* Normalize with the two steps in the other order: STX removal, then trim
NormalizeStxFirst(response) ==
    Trim(IF StartsWith(response, STX) THEN SkipPrefix(response, 1) ELSE response)

\* the trim and the STX removal at the head of parse
Normalize(response) ==
    LET trimmed == Trim(response)
    IN  IF StartsWith(trimmed, STX) THEN SkipPrefix(trimmed, 1) ELSE trimmed

\* IsAck accepting any casing of the word
IsAckAnyCase(response) ==
    \/ response = ACK
    \/ /\ Len(response) = 3
       /\ \A i \in 1..3 : response[i] = AckText[i] \/ response[i] = AckText[i] - 32

\* response == "\x06" || response == "ack"
IsAck(response) == response = ACK \/ response = AckText

IsXon(response) == response = XON \/ response = XonText

IsXoff(response) == response = XOFF \/ response = XoffText

\* XonResult had XON been taken for "can continue": an acknowledge
XonAsAcknowledge == Ok(Acknowledge)

\* what parse returns for XON and for XOFF
XonResult == Err("InvalidResponse")
XoffResult == Err("InvalidResponse")

\* HasTerminator had the ends_with(';') test been left out
HasTerminatorUnchecked(content) == TRUE

\* content.ends_with(';')
HasTerminator(content) == EndsWith(content, SEMI)

\* the DTH arm, content being the text after "DTH:"
ParseData(content) ==
    IF ~HasTerminator(content) THEN Err("InvalidResponse")
    ELSE LET parts == Split(DropLast(content), 44) IN
    IF Len(parts) # 2 THEN Err("InvalidResponse")
    ELSE LET address == from_hex(parts[1]) IN
    IF address.kind = "Panic" THEN Panicked
    ELSE IF address.kind = "Err" THEN Err(address.err)
    ELSE LET value == parse_hex_byte(parts[2]) IN
    IF value.kind = "Err" THEN Err(value.err)
    ELSE Ok(Data(address.val, value.val))

\* the VER arm
ParseVersion(content) ==
    IF ~HasTerminator(content) THEN Err("InvalidResponse")
    ELSE LET parts == Split(DropLast(content), 44) IN
    IF Len(parts) # 2 THEN Err("InvalidResponse")
    ELSE Ok(Version(parts[1], parts[2]))

\* match code { 0 => .., 4 => .., 5 => .., 6 => .., _ => UnknownError(code) }
ErrorOfCode(code) ==
    IF code = 0 THEN NamedError("SyntaxError")
    ELSE IF code = 4 THEN NamedError("Invalid")
    ELSE IF code = 5 THEN NamedError("OutOfRange")
    ELSE IF code = 6 THEN NamedError("NoStx")
    ELSE UnknownError(code)

\* the ERR arm
ParseError(content) ==
    IF ~HasTerminator(content) THEN Err("InvalidResponse")
    ELSE LET code == parse_decimal_u8(DropLast(content)) IN
    IF code.kind = "Err" THEN Err(code.err)
    ELSE Ok(Error(ErrorOfCode(code.val)))

\* parse after the normalization: the chain of tests on the response text
Dispatch(response) ==
    IF IsAck(response) THEN Ok(Acknowledge)
    ELSE IF IsXon(response) THEN XonResult
    ELSE IF IsXoff(response) THEN XoffResult
    ELSE IF StartsWith(response, DTH) THEN ParseData(SkipPrefix(response, 4))
    ELSE IF StartsWith(response, VER) THEN ParseVersion(SkipPrefix(response, 4))
    ELSE IF StartsWith(response, ERR) THEN ParseError(SkipPrefix(response, 4))
    ELSE Err("InvalidResponse")

parse(response) == Dispatch(Normalize(response))

(***************************************************************************)
(* Specification of response parsing: a caller (the transport) hands parse *)
(* a received text: optional whitespace and STX bytes around a message     *)
(* that is a signal or a keyword with comma-separated fields.              *)
(***************************************************************************)
RECURSIVE Join(_, _)
Join(fields, sep) ==
    IF fields = <<>> THEN <<>>
    ELSE IF Len(fields) = 1 THEN fields[1]
    ELSE fields[1] \o sep \o Join(Tail(fields), sep)

\* "\x06" "ack" "ACK" "Ack" "\x11" "xon" "XON" "\x13" "xoff" "" "\x06\x06" "ack;" "x\x06"
SignalTexts ==
    { ACK, AckText, <<65, 67, 75>>, <<65, 99, 107>>, XON, XonText, <<88, 79, 78>>,
      XOFF, XoffText, <<>>, <<6, 6>>, <<97, 99, 107, 59>>, <<120, 6>> }

\* "123456" "abCDef" "0<U+00E9>000" "<U+FFFD>123" "01" "fF" "<U+00E9>"
DataFields ==
    { <<49, 50, 51, 52, 53, 54>>, <<97, 98, 67, 68, 101, 102>>, <<48, 233, 48, 48, 48>>,
      <<65533, 49, 50, 51>>, <<48, 49>>, <<102, 70>>, <<233>> }

\* "VR-6HD" "1.00" "" "a;b"
VersionFields == { <<86, 82, 45, 54, 72, 68>>, <<49, 46, 48, 48>>, <<>>, <<97, 59, 98>> }

\* "" "0" "4" "5" "6" "99" "255" "256" "007" "+4" "-1" "4,5" "4 "
ErrorCodes ==
    { <<>>, <<48>>, <<52>>, <<53>>, <<54>>, <<57, 57>>, <<50, 53, 53>>, <<50, 53, 54>>,
      <<48, 48, 55>>, <<43, 52>>, <<45, 49>>, <<52, 44, 53>>, <<52, 32>> }

KeywordTexts(keyword, fields) ==
    { keyword \o Join(f, COMMA) \o t :
        f \in StringsUpTo(fields, MaxFields), t \in {<<>>, SEMI} }

MessageTexts ==
    SignalTexts \cup KeywordTexts(DTH, DataFields) \cup KeywordTexts(VER, VersionFields)
        \cup { ERR \o c \o t : c \in ErrorCodes, t \in {<<>>, SEMI} }

\* k STX bytes
StxRun(k) == [i \in 1..k |-> 2]

\* " "? STX* " "? message "\r\n"?
ParseInputs ==
    { lead \o StxRun(k) \o gap \o m \o trail :
        lead \in {<<>>, <<32>>}, k \in 0..MaxStx, gap \in {<<>>, <<32>>},
        m \in MessageTexts, trail \in {<<>>, <<13, 10>>} }

ParseInit ==
    /\ input \in ParseInputs
    /\ cmd = NoCommand
    /\ result = NotCalled
    /\ out = <<>>
    /\ client = NoClient

ParseCall ==
    /\ result.kind = "NotCalled"
    /\ result' = parse(input)
    /\ UNCHANGED <<input, cmd, out, client>>

ParseNext == ParseCall

SpecParse == ParseInit /\ [][ParseNext]_vars

(***************************************************************************)
(* Specification of error responses: the device reports "ERR:" + code +    *)
(* ";" and the caller hands the text to parse.                             *)
(***************************************************************************)
\* '0'..'9', '+', '-'
CodeAlphabet == (48..57) \cup {43, 45}

ErrInit ==
    /\ input \in { ERR \o d \o SEMI : d \in StringsUpTo(CodeAlphabet, MaxCodeChars) }
    /\ cmd = NoCommand
    /\ result = NotCalled
    /\ out = <<>>
    /\ client = NoClient

SpecErr == ErrInit /\ [][ParseNext]_vars

(***************************************************************************)
(* Specification of the echo: a Command is encoded, plain or with STX, and *)
(* the text it was encoded to is handed to parse.                          *)
(***************************************************************************)
\* Response::parse(&c.encode()) / Response::parse(&c.encode_with_stx())
ParseEncodedCall(name) ==
    /\ Called(name)
    /\ result.kind = "NotCalled"
    /\ input' = out[name]
    /\ result' = parse(out[name])
    /\ UNCHANGED <<cmd, out, client>>

EchoNext ==
    \/ EncodeCall
    \/ EncodeWithStxCall
    \/ ParseEncodedCall("encode")
    \/ ParseEncodedCall("encode_with_stx")

SpecEcho == EncInit /\ [][EchoNext]_vars

(***************************************************************************)
(* TelnetClient: send_command writes the encoded command and read_response *)
(* reads from the stream until it takes the buffer for complete. Each      *)
(* blocking call on the stream is one step; the device and the network     *)
(* choose what it returns.                                                 *)
(***************************************************************************)
\* Result<Response, TelnetError> of send_command
TelnetOk(response) == [kind |-> "Ok", val |-> response, err |-> "none"]
TelnetIo == [kind |-> "Io", val |-> <<>>, err |-> "none"]
TelnetConnectionClosed == [kind |-> "ConnectionClosed", val |-> <<>>, err |-> "none"]
NoReturn == [kind |-> "none", val |-> <<>>, err |-> "none"]
Unwound == [kind |-> "Panic", val |-> <<>>, err |-> "none"]

\* TelnetProtocol with the protocol error filed as an I/O error
TelnetProtocolAsIo(e) == TelnetIo

\* From<RolandError> for TelnetError
TelnetProtocol(e) == [kind |-> "Protocol", val |-> <<>>, err |-> e]

\* String::from_utf8_lossy for bytes below 0x80 and for bytes 0xF8..0xFF, which
\* never begin or continue a UTF-8 sequence: each of the latter becomes U+FFFD
Utf8Lossy(bytes) == [i \in 1..Len(bytes) |-> IF bytes[i] < 128 THEN bytes[i] ELSE 65533]

\* str::contains(char)
Contains(s, c) == \E i \in 1..Len(s) : s[i] = c

\* the test of read_response for a complete response
LooksComplete(response_str) ==
    \/ EndsWith(response_str, SEMI)
    \/ Contains(response_str, 6)
    \/ Contains(response_str, 17)
    \/ Contains(response_str, 19)

\* TelnetClient::connect
Connected ==
    [pc |-> "idle", buffer |-> <<>>, ret |-> NoReturn, event |-> "connected",
     reads |-> 0, calls |-> 0, received |-> <<>>]

\* commands the caller sends: write_parameter, read_parameter, get_version
ClientCommands ==
    { WriteParameter(Address(18, 52, 86), 1), ReadParameter(Address(18, 52, 86), U32(0, 1)),
      GetVersion }

\* what one read may deliver:
\* "\x06" "ack" "DTH:12" "3456,01;" "\xFF;"
DeviceChunks ==
    { <<6>>, <<97, 99, 107>>, <<68, 84, 72, 58, 49, 50>>,
      <<51, 52, 53, 54, 44, 48, 49, 59>>, <<255, 59>> }

ClientInit ==
    /\ input = <<>>
    /\ cmd = NoCommand
    /\ result = NotCalled
    /\ out = <<>>
    /\ client = Connected

\* send_command up to its first read: write_all and flush, either of which may fail
SendCommand(c, outcome) ==
    /\ client.pc = "idle"
    /\ client.calls < MaxCalls
    /\ cmd' = c
    /\ input' = <<>>
    /\ result' = NotCalled
    /\ out' = IF outcome = "write_failed" THEN <<>> ELSE ("sent" :> encode(c))
    /\ client' = [client EXCEPT
            !.pc = IF outcome = "ok" THEN "reading" ELSE "idle",
            !.ret = IF outcome = "ok" THEN NoReturn ELSE TelnetIo,
            !.event = outcome,
            !.reads = 0,
            !.calls = @ + 1,
            !.received = <<>>]

\* stream.read fails (an I/O error or the 5 s read timeout): the `?` returns it
ReadFails ==
    /\ client.pc = "reading"
    /\ client' = [client EXCEPT !.pc = "idle", !.ret = TelnetIo, !.event = "read_failed"]
    /\ UNCHANGED <<input, cmd, result, out>>

\* stream.read returns 0 bytes
ReadZero ==
    /\ client.pc = "reading"
    /\ client' = [client EXCEPT !.pc = "idle", !.ret = TelnetConnectionClosed,
                                !.event = "closed"]
    /\ UNCHANGED <<input, cmd, result, out>>

\* stream.read returns a chunk: the rest of read_response up to its return or
\* to the next read
ReadData(chunk) ==
    /\ client.pc = "reading"
    /\ client.reads < MaxReads
    /\ LET buffer == client.buffer \o chunk
           response_str == Utf8Lossy(buffer)
           response == parse(response_str)
       IN  IF LooksComplete(response_str)
           THEN /\ input' = response_str
                /\ result' = response
                /\ client' = [client EXCEPT
                        !.pc = "idle",
                        !.buffer = IF response.kind = "Ok" THEN <<>> ELSE buffer,
                        !.ret = IF response.kind = "Ok" THEN TelnetOk(response.val)
                                ELSE IF response.kind = "Err" THEN TelnetProtocol(response.err)
                                ELSE Unwound,
                        !.event = "parsed",
                        !.reads = @ + 1,
                        !.received = @ \o chunk]
           ELSE /\ client' = [client EXCEPT
                        !.buffer = buffer,
                        !.event = "incomplete",
                        !.reads = @ + 1,
                        !.received = @ \o chunk]
                /\ UNCHANGED <<input, result>>
    /\ UNCHANGED <<cmd, out>>

ClientNext ==
    \/ \E c \in ClientCommands, outcome \in {"ok", "write_failed", "flush_failed"} :
            SendCommand(c, outcome)
    \/ ReadFails
    \/ ReadZero
    \/ \E chunk \in DeviceChunks : ReadData(chunk)

SpecClient == ClientInit /\ [][ClientNext]_vars

(***************************************************************************)
(* Reference notions the claims are stated in                              *)
(***************************************************************************)
\* "0123456789ABCDEF"
UpperHexTable == <<48, 49, 50, 51, 52, 53, 54, 55, 56, 57, 65, 66, 67, 68, 69, 70>>

ToUpperChar(c) == IF c >= 97 /\ c <= 122 THEN c - 32 ELSE c

ToUpper(s) == [i \in 1..Len(s) |-> ToUpperChar(s[i])]

IsHexChar(c) == \E i \in 1..16 : UpperHexTable[i] = ToUpperChar(c)

IsHexString(s) == \A i \in 1..Len(s) : IsHexChar(s[i])

DigitValue(c) == (CHOOSE i \in 1..16 : UpperHexTable[i] = ToUpperChar(c)) - 1

PairValue(s, i) == DigitValue(s[i]) * 16 + DigitValue(s[i + 1])

\* the two uppercase digits of a byte, zero-padded
Hex2(v) == <<UpperHexTable[(v \div 16) + 1], UpperHexTable[(v % 16) + 1]>>

Hex6(a) == Hex2(a.high) \o Hex2(a.mid) \o Hex2(a.low)

\* s without its leading and trailing whitespace
TrimRef(s) ==
    LET n == Len(s)
        lead == CHOOSE k \in 0..n :
                    /\ \A i \in 1..k : IsWhitespace(s[i])
                    /\ k = n \/ ~IsWhitespace(s[k + 1])
        rest == SubSeq(s, lead + 1, n)
        m == Len(rest)
        trail == CHOOSE k \in 0..m :
                    /\ \A i \in 1..k : IsWhitespace(rest[m + 1 - i])
                    /\ k = m \/ ~IsWhitespace(rest[m - k])
    IN  SubSeq(rest, 1, m - trail)

\* s without one leading STX byte, if it starts with one
StripOneLeadingStx(s) == IF s # <<>> /\ s[1] = 2 THEN Tail(s) ELSE s

\* the normalization parse applies: trim, then one STX
NormalizedRef(s) == StripOneLeadingStx(TrimRef(s))

\* the normalization in the order the specification words it: one STX, then trim
NormalizedStxFirstRef(s) == TrimRef(StripOneLeadingStx(s))

SameResponse(a, b) == a.tag = b.tag /\ a = b

SameResult(r, q) ==
    /\ r.kind = q.kind
    /\ r.err = q.err
    /\ r.kind = "Ok" => SameResponse(r.val, q.val)

IsErr(r, e) == r.kind = "Err" /\ r.err = e

IsOkTag(r, tag) == r.kind = "Ok" /\ r.val.tag = tag

ParseCalled == result.kind # "NotCalled"

(***************************************************************************)
(* C2: for every 6-character string s of hex digits, from_hex(s) succeeds  *)
(* with high/mid/low equal to the three consecutive digit pairs (most      *)
(* significant first); to_hex of that address is s in uppercase, and       *)
(* write_hex emits the same 6 characters as to_hex.                        *)
(***************************************************************************)
C2_AddressRoundTrip ==
    (Len(input) = 6 /\ IsHexString(input) /\ result.kind # "NotCalled") =>
        /\ result.kind = "Ok"
        /\ result.val = Address(PairValue(input, 1), PairValue(input, 3), PairValue(input, 5))
        /\ Called("to_hex") => out["to_hex"] = ToUpper(input)
        /\ Called("write_hex") => out["write_hex"] = ToUpper(input)
        /\ (Called("to_hex") /\ Called("write_hex")) => out["write_hex"] = out["to_hex"]

\* a mixed-case hex text has been parsed and rendered both ways
C2_Witness ==
    /\ Len(input) = 6 /\ IsHexString(input)
    /\ \E i \in 1..6 : input[i] = 97
    /\ \E i \in 1..6 : input[i] = 70
    /\ result.kind = "Ok"
    /\ Called("to_hex") /\ Called("write_hex")

(***************************************************************************)
(* C3: from_hex returns Err(InvalidAddress) for every text that is not     *)
(* exactly 6 characters long or holds a character outside 0-9A-Fa-f,       *)
(* multi-byte characters included; it never returns Ok and never fails in  *)
(* any other way for such a text.                                          *)
(***************************************************************************)
C3_InvalidAddressForBadText ==
    ((Len(input) # 6 \/ ~IsHexString(input)) /\ result.kind # "NotCalled") =>
        (result.kind = "Err" /\ result.err = "InvalidAddress")

(***************************************************************************)
(* C4: for every address a and every byte v, WriteParameter{a,v}.encode()  *)
(* is "DTH:" + the 6 uppercase hex digits of a + "," + exactly 2 uppercase *)
(* zero-padded hex digits of v + ";", always 14 characters.                *)
(***************************************************************************)
C4_WriteParameterEncoding ==
    (cmd.type = "WriteParameter" /\ Called("encode")) =>
        /\ out["encode"] = DTH \o Hex6(cmd.address) \o COMMA \o Hex2(cmd.value) \o SEMI
        /\ Len(out["encode"]) = 14

\* a write of a value below 0x10 (padding needed) at an address with letters
C4_Witness ==
    /\ cmd.type = "WriteParameter" /\ Called("encode")
    /\ cmd.value = 10
    /\ cmd.address = Address(154, 9, 255)

(***************************************************************************)
(* C5: for every address a and every u32 size, ReadParameter{a,size}       *)
(* .encode() is "RQH:" + 6 hex digits of a + "," + exactly 6 uppercase hex *)
(* digits + ";" (always 18 characters), the size field being the           *)
(* zero-padded 24-bit representation of size, never longer than 6 digits.  *)
(***************************************************************************)
C5_ReadParameterSizeIs24Bit ==
    (cmd.type = "ReadParameter" /\ Called("encode")) =>
        /\ Len(out["encode"]) = 18
        /\ out["encode"] = RQH \o Hex6(cmd.address) \o COMMA
                \o Hex2(cmd.size.hi % 256) \o Hex2(cmd.size.lo \div 256)
                \o Hex2(cmd.size.lo % 256) \o SEMI

(***************************************************************************)
(* C6: the allocating and the sink-writing paths are the same function:    *)
(* for every Command the text written by write equals encode(), the text   *)
(* written by write_with_stx equals encode_with_stx(), and the latter is   *)
(* the byte 0x02 followed by encode().                                     *)
(***************************************************************************)
C6_WriteEqualsEncode ==
    /\ (Called("write") /\ Called("encode")) => out["write"] = out["encode"]
    /\ (Called("write_with_stx") /\ Called("encode_with_stx")) =>
            out["write_with_stx"] = out["encode_with_stx"]
    /\ (Called("encode_with_stx") /\ Called("encode")) =>
            out["encode_with_stx"] = <<2>> \o out["encode"]

(***************************************************************************)
(* C1: parse is total: for every input text, texts with multi-byte         *)
(* characters such as U+FFFD in the address or value field of a DTH: body  *)
(* included, parse returns exactly one Ok(Response) or one Err(RolandError)*)
(* and never aborts or panics.                                             *)
(***************************************************************************)
C1_ParseIsTotal ==
    result.kind # "NotCalled" => result.kind \in {"Ok", "Err"}

(***************************************************************************)
(* C7 as stated: parse strips one leading STX byte first and then trims    *)
(* surrounding whitespace: for every input x, parse(x) is the dispatch     *)
(* result on trim(strip_one_leading_STX(x)); so 0x02, space, "ack" parses  *)
(* as Acknowledge.                                                         *)
(***************************************************************************)
C7_StxStrippedBeforeTrim ==
    ParseCalled => SameResult(result, Dispatch(NormalizedStxFirstRef(input)))

(***************************************************************************)
(* C7 as amended: parse trims surrounding whitespace first and then strips *)
(* one leading STX byte: for every input x, parse(x) is the dispatch       *)
(* result on strip_one_leading_STX(trim(x)); so space, 0x02, "ack" parses  *)
(* as Acknowledge, and 0x02, space, "ack" is Err(InvalidResponse).         *)
(***************************************************************************)
C7_TrimBeforeStxStripped ==
    ParseCalled =>
        /\ SameResult(result, Dispatch(NormalizedRef(input)))
        /\ input = <<32, 2>> \o AckText => IsOkTag(result, "Acknowledge")
        /\ input = <<2, 32>> \o AckText => IsErr(result, "InvalidResponse")

\* whitespace, then STX, then a message, then whitespace: both steps acted
C7_Witness ==
    /\ input = <<32, 2>> \o AckText \o <<13, 10>>
    /\ IsOkTag(result, "Acknowledge")

(***************************************************************************)
(* C8: parse returns Ok(Acknowledge) exactly when the normalized input     *)
(* (as parse normalizes it: trimmed, one leading STX stripped) is the      *)
(* single byte 0x06 or the exact lowercase text "ack"; "ACK", "Ack" and    *)
(* texts with extra characters around the ACK byte are no Acknowledge.     *)
(***************************************************************************)
C8_AcknowledgeExactly ==
    ParseCalled =>
        (IsOkTag(result, "Acknowledge") <=> NormalizedRef(input) \in {<<6>>, <<97, 99, 107>>})

\* the word form behind an STX is acknowledged
C8_Witness ==
    /\ input = STX \o AckText
    /\ IsOkTag(result, "Acknowledge")

(***************************************************************************)
(* C9: flow-control signals are never turned into a response: for 0x11,    *)
(* "xon", 0x13 and "xoff", with or without a leading STX or surrounding    *)
(* whitespace, parse returns Err(InvalidResponse), never Ok.               *)
(***************************************************************************)
IsFlowSignalInput(x) ==
    \E sig \in {<<17>>, <<120, 111, 110>>, <<19>>, <<120, 111, 102, 102>>} :
        \/ TrimRef(x) = sig
        \/ TrimRef(x) = <<2>> \o sig
        \/ TrimRef(StripOneLeadingStx(x)) = sig

C9_FlowControlIsInvalidResponse ==
    (ParseCalled /\ IsFlowSignalInput(input)) => IsErr(result, "InvalidResponse")

\* "xon" behind whitespace and an STX has been parsed
C9_Witness ==
    /\ input = <<32, 2>> \o XonText \o <<13, 10>>
    /\ IsErr(result, "InvalidResponse")

(***************************************************************************)
(* C10: for every input whose normalized form starts with "DTH:", "VER:"   *)
(* or "ERR:" and does not end with ';', parse returns Err(InvalidResponse),*)
(* whatever the body contains.                                             *)
(***************************************************************************)
IsUnterminatedBody(n) ==
    /\ \E kw \in {DTH, VER, ERR} : StartsWith(n, kw)
    /\ ~(n # <<>> /\ n[Len(n)] = 59)

C10_MissingTerminatorIsInvalidResponse ==
    (ParseCalled /\ (IsUnterminatedBody(NormalizedRef(input))
                        \/ IsUnterminatedBody(NormalizedStxFirstRef(input)))) =>
        IsErr(result, "InvalidResponse")

\* an otherwise well-formed data response without its ';'
C10_Witness ==
    /\ NormalizedRef(input) = DTH \o <<49, 50, 51, 52, 53, 54, 44, 48, 49>>
    /\ IsErr(result, "InvalidResponse")

(***************************************************************************)
(* C11: for a normalized input "DTH:" + B + ";", parse returns             *)
(* Ok(Data{address, value}) if and only if B is exactly 6 hex digits, one  *)
(* comma and exactly 2 hex digits, address and value then being the bytes  *)
(* the digits denote; a body with a number of comma-separated fields other *)
(* than 2 yields Err(InvalidResponse), and a body with 2 fields but a      *)
(* malformed address yields Err(InvalidAddress).                           *)
(***************************************************************************)
\* the text between a 4-char keyword and the final ';' of a normalized message
BodyOf(n) == SubSeq(n, 5, Len(n) - 1)

IsTerminated(n, keyword) == StartsWith(n, keyword) /\ n[Len(n)] = 59

CommaCount(b) == Cardinality({i \in 1..Len(b) : b[i] = 44})

\* the text before the first comma of a body that holds one
FirstField(b) == SubSeq(b, 1, (CHOOSE i \in 1..Len(b) : b[i] = 44 /\ \A j \in 1..(i - 1) : b[j] # 44) - 1)

IsDataBody(b) ==
    /\ Len(b) = 9
    /\ b[7] = 44
    /\ IsHexString(SubSeq(b, 1, 6))
    /\ IsHexString(SubSeq(b, 8, 9))

C11_DataExactly ==
    (ParseCalled /\ IsTerminated(NormalizedRef(input), DTH)) =>
        LET b == BodyOf(NormalizedRef(input)) IN
        /\ IsOkTag(result, "Data") <=> IsDataBody(b)
        /\ IsDataBody(b) =>
            /\ result.val.address = Address(PairValue(b, 1), PairValue(b, 3), PairValue(b, 5))
            /\ result.val.value = PairValue(b, 8)
        /\ CommaCount(b) # 1 => IsErr(result, "InvalidResponse")
        /\ (CommaCount(b) = 1 /\ ~(Len(FirstField(b)) = 6 /\ IsHexString(FirstField(b)))) =>
                IsErr(result, "InvalidAddress")

(***************************************************************************)
(* C12: for a normalized input "ERR:" + D + ";" with D a non-empty string  *)
(* of decimal digits (leading zeros allowed) of value n: if n <= 255,      *)
(* parse returns Ok(Error(e)) with e = SyntaxError for 0, Invalid for 4,   *)
(* OutOfRange for 5, NoStx for 6 and UnknownError(n) for every other n; if *)
(* n > 255, or D holds any non-digit character ('+' and '-' included),     *)
(* parse returns Err(InvalidResponse).                                     *)
(***************************************************************************)
IsDigitString(d) == \A i \in 1..Len(d) : d[i] \in 48..57

RECURSIVE DecimalValue(_)
DecimalValue(d) ==
    IF d = <<>> THEN 0 ELSE DecimalValue(SubSeq(d, 1, Len(d) - 1)) * 10 + (d[Len(d)] - 48)

ExpectedError(n) ==
    CASE n = 0 -> [name |-> "SyntaxError", code |-> 0]
      [] n = 4 -> [name |-> "Invalid", code |-> 0]
      [] n = 5 -> [name |-> "OutOfRange", code |-> 0]
      [] n = 6 -> [name |-> "NoStx", code |-> 0]
      [] OTHER -> [name |-> "UnknownError", code |-> n]

C12_ErrorCodeMapping ==
    (ParseCalled /\ IsTerminated(NormalizedRef(input), ERR)
        /\ BodyOf(NormalizedRef(input)) # <<>>) =>
        LET d == BodyOf(NormalizedRef(input)) IN
        IF IsDigitString(d) /\ DecimalValue(d) <= 255
            THEN /\ IsOkTag(result, "Error")
                 /\ result.val.error = ExpectedError(DecimalValue(d))
                 /\ result.val.error.name = "UnknownError" =>
                        result.val.error.code \notin {0, 4, 5, 6}
            ELSE IsErr(result, "InvalidResponse")

\* a code with a leading zero at the top of the u8 range
C12_Witness ==
    /\ input = ERR \o <<48, 50, 53, 53>> \o SEMI
    /\ IsOkTag(result, "Error")
    /\ result.val.error = [name |-> "UnknownError", code |-> 255]

(***************************************************************************)
(* C13: in every Ok(Version{product, version}) parse returns, neither      *)
(* product nor version contains the separator ',' or the terminator ';';   *)
(* and for the input "VER:" + P + "," + V + ";" with P and V free of ','   *)
(* and ';' the result is Version{product: P, version: V}.                  *)
(***************************************************************************)
HasChar(s, c) == \E i \in 1..Len(s) : s[i] = c

\* the text after the first comma of a body that holds one
SecondField(b) == SubSeq(b, Len(FirstField(b)) + 2, Len(b))

C13_VersionFieldsHoldNoSeparator ==
    ParseCalled =>
        /\ IsOkTag(result, "Version") =>
            /\ ~HasChar(result.val.product, 44) /\ ~HasChar(result.val.product, 59)
            /\ ~HasChar(result.val.version, 44) /\ ~HasChar(result.val.version, 59)
        /\ (IsTerminated(input, VER) /\ CommaCount(BodyOf(input)) = 1
                /\ ~HasChar(BodyOf(input), 59)) =>
            /\ IsOkTag(result, "Version")
            /\ result.val.product = FirstField(BodyOf(input))
            /\ result.val.version = SecondField(BodyOf(input))

(***************************************************************************)
(* C14 as stated: commands and responses are disjoint grammars: for every  *)
(* Command c, parse(c.encode()) and parse(c.encode_with_stx()) return an   *)
(* error, never Ok of any Response.                                        *)
(***************************************************************************)
C14_ParseRejectsEveryEncoding ==
    ParseCalled => result.kind = "Err"

(***************************************************************************)
(* C14 as amended: for every ReadParameter and for GetVersion,             *)
(* parse(c.encode()) and parse(c.encode_with_stx()) return                 *)
(* Err(InvalidResponse); for every WriteParameter{a, v} both return        *)
(* Ok(Data{address: a, value: v}), the write request and the data response *)
(* being the same text.                                                    *)
(***************************************************************************)
C14_OnlyWriteParameterEchoes ==
    ParseCalled =>
        IF cmd.type = "WriteParameter"
            THEN /\ IsOkTag(result, "Data")
                 /\ result.val.address = cmd.address
                 /\ result.val.value = cmd.value
            ELSE IsErr(result, "InvalidResponse")

\* the STX-prefixed encoding of a write has been parsed back
C14_Witness ==
    /\ cmd.type = "WriteParameter"
    /\ cmd.value = 10
    /\ Called("encode_with_stx") /\ input = out["encode_with_stx"]
    /\ IsOkTag(result, "Data")

(***************************************************************************)
(* C18: an error response must carry a code: parse returns Ok(Error(_))    *)
(* only when the text between "ERR:" and the terminating ';' is a          *)
(* non-empty sequence of decimal digits; "ERR:;" returns                   *)
(* Err(InvalidResponse) and is not reported as Error(SyntaxError).         *)
(***************************************************************************)
C18_ErrorNeedsCode ==
    ParseCalled =>
        /\ IsOkTag(result, "Error") =>
            /\ IsTerminated(NormalizedRef(input), ERR)
            /\ BodyOf(NormalizedRef(input)) # <<>>
            /\ IsDigitString(BodyOf(NormalizedRef(input)))
        /\ NormalizedRef(input) = ERR \o SEMI => IsErr(result, "InvalidResponse")

(***************************************************************************)
(* C19: malformed address and malformed value are different errors: for    *)
(* "DTH:" + A + "," + V + ";" with A a well-formed 6-hex-digit address and *)
(* V not exactly two hex digits parse fails with InvalidValue;             *)
(* InvalidAddress is returned only when the address field is malformed.    *)
(***************************************************************************)
IsAddressText(a) == Len(a) = 6 /\ IsHexString(a)

IsValueText(v) == Len(v) = 2 /\ IsHexString(v)

C19_MalformedValueIsInvalidValue ==
    (ParseCalled /\ IsTerminated(NormalizedRef(input), DTH)
        /\ CommaCount(BodyOf(NormalizedRef(input))) = 1) =>
        LET b == BodyOf(NormalizedRef(input)) IN
        /\ (IsAddressText(FirstField(b)) /\ ~IsValueText(SecondField(b))) =>
                IsErr(result, "InvalidValue")
        /\ IsErr(result, "InvalidAddress") => ~IsAddressText(FirstField(b))


\* "ack" "xon" "xoff"
SignalWords == { <<97, 99, 107>>, <<120, 111, 110>>, <<120, 111, 102, 102>> }

\* a complete message as the specification has it: it ends with ';' or it is
\* one of the signals, as a control byte or as a word
IsCompleteMessage(s) ==
    \/ EndsWith(s, SEMI)
    \/ s \in { ACK, XON, XOFF }
    \/ s \in SignalWords

\* C15: the read loop hands the buffer to parse as soon as, and only when, it
\* ends with ';' or equals an ACK/XON/XOFF signal in control-byte or word form:
\* whatever was parsed was such a message, and a buffer the loop goes on
\* reading for is not one
C15_ParsedExactlyWhenComplete ==
    /\ client.event = "parsed" => IsCompleteMessage(input)
    /\ (client.pc = "reading" /\ client.reads > 0) =>
            ~IsCompleteMessage(Utf8Lossy(client.buffer))

\* C16: transport and protocol errors are never conflated: a failed or timed
\* out write, flush or read returns Io, and nothing else does; a read of zero
\* bytes returns ConnectionClosed, parse not having run; Protocol(e) is
\* returned exactly when parse ran on the accumulated bytes and returned Err(e)
C16_ErrorChannelsDistinct ==
    (client.pc = "idle" /\ client.calls > 0) =>
        /\ client.ret.kind = "Io" <=>
                client.event \in {"write_failed", "flush_failed", "read_failed"}
        /\ client.ret.kind = "Io" => result.kind = "NotCalled"
        /\ client.ret.kind = "ConnectionClosed" <=> client.event = "closed"
        /\ client.event = "closed" => result.kind = "NotCalled"
        /\ client.ret.kind = "Protocol" <=> (client.event = "parsed" /\ result.kind = "Err")
        /\ client.ret.kind = "Protocol" =>
                /\ input = Utf8Lossy(client.buffer)
                /\ client.ret.err = result.err

\* parse was run on bytes read after an earlier read was incomplete, and its
\* error came back as Protocol
C16_Witness ==
    /\ client.pc = "idle"
    /\ client.reads > 1
    /\ client.ret.kind = "Protocol"
    /\ result.kind = "Err"

\* C17: whenever send_command has returned, the receive buffer is empty, and
\* the text handed to parse holds only bytes received for the current request
C17_BufferEmptyOnReturn ==
    /\ (client.pc = "idle" /\ client.calls > 0 /\ client.ret.kind # "none") =>
            client.buffer = <<>>
    /\ client.event = "parsed" => input = Utf8Lossy(client.received)
=============================================================================
